---------------------------- MODULE Spec2Model ----------------------------
(***************************************************************************)
(* Formula-One-Scrapper: the reconciliation core (src/src/merge.py and     *)
(* src/src/data_cleaning.py) and the pipeline of src/main.py.              *)
(*                                                                         *)
(* Strings the code inspects character by character (time cells) are       *)
(* sequences of one-character strings.  Times are integers in milliseconds *)
(* (the code's float seconds times 1000), so that sums are exact.          *)
(***************************************************************************)
EXTENDS Integers, Sequences, FiniteSets, TLC

VARIABLES
    time_in,       \* time_to_decimal: the fields the cell was written from
    time_str,      \* time_to_decimal: the cell handed to it
    first_time,    \* time_to_decimal: the reference (winner's) time, in ms
    time_result,   \* time_to_decimal: the value returned
    tpc,           \* time_to_decimal: "idle" | "call" | "done"
    season,        \* one race: the year of its directory
    race_number,   \* one race: its key in year_dict (the number its file names carry)
    api_in,        \* one race: the table read from its API_* file
    wiki_in,       \* one race: the table read from its WIKI_* file
    api_df,        \* one race: clean_dfs' first result
    wiki_df,       \* one race: clean_dfs' second result
    merged_df,     \* one race: the joined table
    jpc,           \* one race: "idle" | "clean" | "merge" | "done" | the exception raised
    year_dir,      \* one season: the year its directory is named after
    dir_api,       \* one season: the race numbers of the API_* files of the directory
    dir_wiki,      \* one season: the WIKI_* files, in the order os.listdir gives them
    dir_broken,    \* one season: the WIKI_* files whose table has no Position 1 row
    merged_dfs,    \* one season: merge_year_files' first result
    api_failed,    \* one season: merge_year_files' second result
    wiki_failed,   \* one season: merge_year_files' third result
    ypc,           \* one season: "idle" | "call" | "done" | the exception raised
    data_exists,   \* the run: whether the directory "data" exists
    base_listing,  \* the run: the season directories, in the order os.listdir(BASE) gives them
    fs,            \* the run: per season, its API race numbers, WIKI listing and broken tables
    year_dirs,     \* merge_API_WIKI: year_dirs
    yi,            \* merge_API_WIKI: how many entries of year_dirs the loop has done
    all_merged,    \* merge_API_WIKI: all_merged
    all_api_failed,  \* merge_API_WIKI: all_api_failed
    all_wiki_failed, \* merge_API_WIKI: all_wiki_failed
    combined_df,   \* merge_API_WIKI: combined_df
    csv_written,   \* whether this run wrote results/merged.csv
    pc,            \* merge_API_WIKI: "idle" | "listdir" | "loop" | "done" | the exception raised
    points_in,     \* Points normalization: the cell read from the csv
    points_out,    \* Points normalization: the value left in the column, or the exception
    points_pc,     \* Points normalization: "idle" | "call" | "done"
    position_in,   \* convert_position: the fields the cell was written from
    position_out,  \* convert_position: the value returned
    position_pc,   \* convert_position: "idle" | "call" | "done"
    mapping,       \* one round's fetch: results/drivers.csv, driverId -> number or NaN
    race_drivers,  \* one round's fetch: the driverIds of the PitStops the API returned
    response,      \* one round's fetch: "ok" | "empty" | "error" (status code, Races list)
    api_file,      \* one round's fetch: the table written to API_{round}_{year}.csv, if any
    fpc,           \* one round's fetch: "idle" | "call" | "written" | "skipped"
    main_pc,       \* main: the statement it is at, "end", or "crashed"
    step_st,       \* main: per step, "pending" | "running" | "finished" | "failed"
    year_i,        \* get_pit_stops: how many entries of years the loop has done
    years_found,   \* get_pit_stops: the years whose get_year_dfs returned
    drivers_csv    \* main: whether results/drivers.csv exists

timeVars == <<time_in, time_str, first_time, time_result, tpc>>
joinVars == <<season, race_number, api_in, wiki_in, api_df, wiki_df, merged_df, jpc>>
yearVars == <<year_dir, dir_api, dir_wiki, dir_broken, merged_dfs, api_failed,
              wiki_failed, ypc>>
runVars == <<data_exists, base_listing, fs, year_dirs, yi, all_merged, all_api_failed,
             all_wiki_failed, combined_df, csv_written, pc>>
cellVars == <<points_in, points_out, points_pc, position_in, position_out, position_pc>>
fetchVars == <<mapping, race_drivers, response, api_file, fpc>>
mainVars == <<main_pc, step_st, year_i, years_found, drivers_csv>>
restVars == <<cellVars, fetchVars, mainVars>>
vars == <<timeVars, joinVars, yearVars, runVars, restVars>>

(***************************************************************************)
(* Characters and small string helpers                                     *)
(***************************************************************************)
Digits == {"0", "1", "2", "3", "4", "5", "6", "7", "8", "9"}

DigitVal(c) ==
    CASE c = "0" -> 0 [] c = "1" -> 1 [] c = "2" -> 2 [] c = "3" -> 3
      [] c = "4" -> 4 [] c = "5" -> 5 [] c = "6" -> 6 [] c = "7" -> 7
      [] c = "8" -> 8 [] c = "9" -> 9

IsDigits(s) == \A i \in 1..Len(s) : s[i] \in Digits

RECURSIVE SeqToInt(_)
\* int("<digits>"): the decimal value of a sequence of digit characters
SeqToInt(s) ==
    IF s = <<>> THEN 0
    ELSE 10 * SeqToInt(SubSeq(s, 1, Len(s) - 1)) + DigitVal(s[Len(s)])

Pow10(k) == CASE k = 0 -> 1 [] k = 1 -> 10 [] k = 2 -> 100 [] k >= 3 -> 1000

\* s[a:b] of Python, 1-based and inclusive, empty when out of range
Slice(s, a, b) == IF a > b \/ a > Len(s) THEN <<>>
                  ELSE SubSeq(s, a, IF b > Len(s) THEN Len(s) ELSE b)

\* "sub in s"
Contains(s, sub) ==
    \E i \in 1..(Len(s) - Len(sub) + 1) : SubSeq(s, i, i + Len(sub) - 1) = sub

RECURSIVE StripChars(_, _)
\* str.strip(chars): drop the characters of cs from both ends
StripChars(s, cs) ==
    IF s = <<>> THEN s
    ELSE IF s[1] \in cs THEN StripChars(Tail(s), cs)
    ELSE IF s[Len(s)] \in cs THEN StripChars(SubSeq(s, 1, Len(s) - 1), cs)
    ELSE s

RECURSIVE RemoveChar(_, _)
\* str.replace(c, "")
RemoveChar(s, c) ==
    IF s = <<>> THEN s
    ELSE IF s[1] = c THEN RemoveChar(Tail(s), c)
    ELSE <<s[1]>> \o RemoveChar(Tail(s), c)

RECURSIVE SplitOn(_, _)
\* str.split(c): the parts between the occurrences of c (always at least one part)
SplitOn(s, c) ==
    IF \A i \in 1..Len(s) : s[i] # c THEN <<s>>
    ELSE LET k == CHOOSE i \in 1..Len(s) :
                      s[i] = c /\ \A j \in 1..(i - 1) : s[j] # c
         IN <<SubSeq(s, 1, k - 1)>> \o SplitOn(SubSeq(s, k + 1, Len(s)), c)

\* int(s) succeeds: digits, with an optional sign
IntOK(s) ==
    LET body == IF s # <<>> /\ s[1] = "+" THEN Tail(s) ELSE s
    IN body # <<>> /\ IsDigits(body)

IntOf(s) == SeqToInt(IF s[1] = "+" THEN Tail(s) ELSE s)

\* float(s) succeeds: digits with at most one ".", at least one digit, optional sign
FloatOK(s) ==
    LET body  == IF s # <<>> /\ s[1] = "+" THEN Tail(s) ELSE s
        parts == SplitOn(body, ".")
    IN /\ Len(parts) \in {1, 2}
       /\ \A i \in 1..Len(parts) : IsDigits(parts[i])
       /\ \E i \in 1..Len(parts) : parts[i] # <<>>
       /\ Len(parts) = 2 => Len(parts[2]) <= 3

\* float(s), in thousandths
FloatMsOf(s) ==
    LET body  == IF s[1] = "+" THEN Tail(s) ELSE s
        parts == SplitOn(body, ".")
        frac  == IF Len(parts) = 2 THEN parts[2] ELSE <<>>
    IN SeqToInt(parts[1]) * 1000 + SeqToInt(frac) * Pow10(3 - Len(frac))

(***************************************************************************)
(* data_cleaning.py: time_to_decimal                                       *)
(***************************************************************************)
\* The ways ^(\d{1,2})?:?(\d{1,2}):(\d{2})\.(\d{3}) can split a prefix, in the
\* order a backtracking matcher tries them: <<digits of group 1, whether the
\* optional ":" is taken, digits of group 2>>, each greedy first.
PatternTries ==
    << <<2, 1, 2>>, <<2, 1, 1>>, <<2, 0, 2>>, <<2, 0, 1>>,
       <<1, 1, 2>>, <<1, 1, 1>>, <<1, 0, 2>>, <<1, 0, 1>>,
       <<0, 1, 2>>, <<0, 1, 1>>, <<0, 0, 2>>, <<0, 0, 1>> >>

\* Whether the pattern matches at the start of s with a digits in group 1, c
\* optional ":" and p characters before the ":" that follows group 2
SplitMatches(s, a, c, p) ==
    /\ Len(s) >= p + 7
    /\ IsDigits(SubSeq(s, 1, a))
    /\ c = 1 => s[a + 1] = ":"
    /\ IsDigits(SubSeq(s, a + c + 1, p))
    /\ s[p + 1] = ":"
    /\ IsDigits(SubSeq(s, p + 2, p + 3))
    /\ s[p + 4] = "."
    /\ IsDigits(SubSeq(s, p + 5, p + 7))

TryMatches(s, t) == SplitMatches(s, t[1], t[2], t[1] + t[2] + t[3])

\* The groups of the match with a digits in group 1 and p characters before
\* the ":" that follows group 2, of which the last b are group 2
GroupsOf(s, a, b, p) ==
    [ok |-> TRUE,
     g1 |-> SubSeq(s, 1, a),
     g2 |-> SubSeq(s, p - b + 1, p),
     g3 |-> SubSeq(s, p + 2, p + 3),
     g4 |-> SubSeq(s, p + 5, p + 7)]

TryGroups(s, t) == GroupsOf(s, t[1], t[3], t[1] + t[2] + t[3])

\* The first split, in the matcher's order, that matches
FirstTry(s) ==
    CHOOSE i \in 1..Len(PatternTries) :
        /\ TryMatches(s, PatternTries[i])
        /\ \A j \in 1..(i - 1) : ~TryMatches(s, PatternTries[j])

\* re.match(time_pattern, s): the groups of the first split that matches
TimePatternMatch(s) ==
    IF \A i \in 1..Len(PatternTries) : ~TryMatches(s, PatternTries[i])
    THEN [ok |-> FALSE]
    ELSE TryGroups(s, PatternTries[FirstTry(s)])

\* (hours * 3600) + (minutes * 60) + seconds + (milliseconds / 1000), in ms; a
\* group that did not take part (None) is empty and counts 0
MatchMs(match) ==
    SeqToInt(match.g1) * 3600000 + SeqToInt(match.g2) * 60000
    + SeqToInt(match.g3) * 1000 + SeqToInt(match.g4)

NaN == [kind |-> "nan"]
Num(ms) == [kind |-> "num", ms |-> ms]
Text(s) == [kind |-> "text", text |-> s]

\* lines 163-173, for the parts of the stripped string
GapOfParts(ft, stripped, parts) ==
    IF Len(parts) = 2
    THEN IF IntOK(parts[1]) /\ FloatOK(Slice(parts[2], 1, 3))
         THEN Num(ft + IntOf(parts[1]) * 60000 + FloatMsOf(Slice(parts[2], 1, 3)))
         ELSE Text(stripped)
    ELSE IF Len(parts) = 1
    THEN IF FloatOK(Slice(parts[1], 1, 3))
         THEN Num(ft + FloatMsOf(Slice(parts[1], 1, 3)))
         ELSE Text(stripped)
    ELSE NaN

\* lines 162-175, for the stripped string
GapOfStripped(ft, stripped) == GapOfParts(ft, stripped, SplitOn(stripped, ":"))

\* The "+" branch of time_to_decimal (lines 158-175)
GapToDecimal(ft, s) ==
    GapOfStripped(ft, RemoveChar(StripChars(StripChars(s, {"+"}), {" "}), " "))

\* lines 142-179, for the result of time_pattern.match
TimeOfMatch(ft, s, match) ==
    IF match.ok
    THEN Num(MatchMs(match))
    ELSE IF Contains(s, <<"l", "a", "p">>) \/ Contains(s, <<"l", "a", "p", "s">>)
    THEN NaN
    ELSE IF Contains(s, <<"+">>)
    THEN GapToDecimal(ft, s)
    ELSE Text(s)

time_to_decimal(ft, s) == TimeOfMatch(ft, s, TimePatternMatch(s))

(***************************************************************************)
(* Time cells as the wiki tables hold them (docstring of time_to_decimal):  *)
(* absolute [[h:]m:]ss.mmm, gap +[m:]ss.mmm, lap deficit, free text.        *)
(***************************************************************************)
HourFields == {<<"1">>, <<"1", "2">>}
MinuteFields == {<<"1">>, <<"5">>, <<"0", "7">>, <<"3", "2">>}
SecondFields == {<<"0", "2">>, <<"0", "5">>, <<"5", "9">>}
MilliFields == {<<"0", "0", "0">>, <<"1", "2", "3">>, <<"4", "5", "6">>}
ReferenceTimes == {0, 5525123}
OtherCells ==
    { <<"+", "1", " ", "l", "a", "p">>,
      <<"+", "2", " ", "l", "a", "p", "s">>,
      <<"E", "n", "g", "i", "n", "e">>,
      <<"+", "x">>,
      <<"+", "1", ":", "0", "2", ":", "0", "3">> }

TimeCells ==
    [kind : {"abs"}, h : HourFields, m : MinuteFields, s : SecondFields, ms : MilliFields]
    \cup [kind : {"abs", "gap"}, h : {<<>>}, m : MinuteFields \cup {<<>>},
          s : SecondFields, ms : MilliFields]
    \cup [kind : {"other"}, text : OtherCells]

WithColon(f) == IF f = <<>> THEN <<>> ELSE f \o <<":">>

\* The text of a cell
Render(c) ==
    IF c.kind = "other" THEN c.text
    ELSE (IF c.kind = "gap" THEN <<"+">> ELSE <<>>)
         \o WithColon(c.h) \o WithColon(c.m) \o c.s \o <<".">> \o c.ms

\* hours*3600 + minutes*60 + seconds + milliseconds/1000 of a cell's fields, in ms
FieldsMs(c) ==
    SeqToInt(c.h) * 3600000 + SeqToInt(c.m) * 60000 + SeqToInt(c.s) * 1000 + SeqToInt(c.ms)

TimeIdle ==
    /\ time_in = [kind |-> "none"]
    /\ time_str = <<>>
    /\ first_time = 0
    /\ time_result = NaN
    /\ tpc = "idle"

JoinIdle ==
    /\ season = 0
    /\ race_number = 0
    /\ api_in = <<>>
    /\ wiki_in = <<>>
    /\ api_df = <<>>
    /\ wiki_df = <<>>
    /\ merged_df = <<>>
    /\ jpc = "idle"

YearIdle ==
    /\ year_dir = 0
    /\ dir_api = {}
    /\ dir_wiki = <<>>
    /\ dir_broken = {}
    /\ merged_dfs = <<>>
    /\ api_failed = <<>>
    /\ wiki_failed = <<>>
    /\ ypc = "idle"

RunIdle ==
    /\ data_exists = FALSE
    /\ base_listing = <<>>
    /\ fs = <<>>
    /\ year_dirs = <<>>
    /\ yi = 0
    /\ all_merged = <<>>
    /\ all_api_failed = <<>>
    /\ all_wiki_failed = <<>>
    /\ combined_df = <<>>
    /\ csv_written = FALSE
    /\ pc = "idle"

CellIdle ==
    /\ points_in = <<>>
    /\ points_out = <<>>
    /\ points_pc = "idle"
    /\ position_in = <<>>
    /\ position_out = <<>>
    /\ position_pc = "idle"

FetchIdle ==
    /\ mapping = <<>>
    /\ race_drivers = {}
    /\ response = "idle"
    /\ api_file = <<>>
    /\ fpc = "idle"

MainIdle ==
    /\ main_pc = "idle"
    /\ step_st = <<>>
    /\ year_i = 0
    /\ years_found = {}
    /\ drivers_csv = FALSE

RestIdle == CellIdle /\ FetchIdle /\ MainIdle

InitTime ==
    /\ JoinIdle
    /\ YearIdle
    /\ RunIdle
    /\ RestIdle
    /\ time_in \in TimeCells
    /\ time_str = Render(time_in)
    /\ first_time \in ReferenceTimes
    /\ time_result = NaN
    /\ tpc = "call"

\* df["Time/Retired"].apply(lambda x: time_to_decimal(first_time, x)), one cell
TimeToDecimal ==
    /\ tpc = "call"
    /\ time_result' = time_to_decimal(first_time, time_str)
    /\ tpc' = "done"
    /\ UNCHANGED <<time_in, time_str, first_time, joinVars, yearVars, runVars, restVars>>

NextTime == TimeToDecimal

SpecTime == InitTime /\ [][NextTime]_vars

(***************************************************************************)
(* C9: for every absolute time string h:mm:ss.mmm, mm:ss.mmm or ss.mmm,     *)
(* time_to_decimal returns hours*3600 + minutes*60 + seconds + ms/1000,     *)
(* absent fields counting as 0.                                            *)
(***************************************************************************)
C9_AbsoluteTime ==
    (tpc = "done" /\ time_in.kind = "abs") =>
        /\ time_result.kind = "num"
        /\ time_result.ms = FieldsMs(time_in)

(***************************************************************************)
(* C10: for every gap string +mm:ss.mmm and reference time T,               *)
(* time_to_decimal(T, gap) returns T + minutes*60 + seconds + ms/1000.      *)
(***************************************************************************)
C10_GapTime ==
    (tpc = "done" /\ time_in.kind = "gap" /\ time_in.m # <<>>) =>
        /\ time_result.kind = "num"
        /\ time_result.ms = first_time + FieldsMs(time_in)

(***************************************************************************)
(* data_cleaning.py: the cleaners.  A table is a sequence of rows.  An API  *)
(* row is [DriverId, DriverNumber]; a wiki row is [Pos, No, Time].  A       *)
(* driver number is NumCell(n) or NanCell (np.nan, an unmapped driver).     *)
(* A cleaner returns [ok |-> TRUE, df |-> table] or, when the code raises,  *)
(* [ok |-> FALSE, error |-> the exception].                                 *)
(***************************************************************************)
NumCell(n) == [nan |-> FALSE, n |-> n]
NanCell == [nan |-> TRUE, n |-> 0]

\* changes = {2022: [("max_verstappen", 1)], 2023: [("lawson", 40)]}, in dict order
changes ==
    << [change_year |-> 2022, driver_id |-> "max_verstappen", new_number |-> 1],
       [change_year |-> 2023, driver_id |-> "lawson", new_number |-> 40] >>

\* the assignment, had it been made without the row selection
SetAllDriverNumbers(df, driver_id, new_number) ==
    [i \in 1..Len(df) |-> [df[i] EXCEPT !.DriverNumber = NumCell(new_number)]]

\* df.loc[df["DriverId"] == driver_id, "DriverNumber"] = new_number
SetDriverNumber(df, driver_id, new_number) ==
    [i \in 1..Len(df) |->
        IF df[i].DriverId = driver_id
        THEN [df[i] EXCEPT !.DriverNumber = NumCell(new_number)]
        ELSE df[i]]

RECURSIVE ApplyChanges(_, _, _)
\* the loop of clean_API_df over changes.items(), from its k-th entry on
ApplyChanges(df, year, k) ==
    IF k > Len(changes) THEN df
    ELSE ApplyChanges(
            IF year >= changes[k].change_year
            THEN SetDriverNumber(df, changes[k].driver_id, changes[k].new_number)
            ELSE df,
            year, k + 1)

clean_API_df(df, year) == ApplyChanges(df, year, 1)

\* \s of the patterns, among the characters the cells are written with
IsSpace(c) == c = " "

\* re.match(r"DSQ\s\d", position)
MatchesDSQNote(position) ==
    /\ Len(position) >= 5
    /\ SubSeq(position, 1, 3) = <<"D", "S", "Q">>
    /\ IsSpace(position[4])
    /\ position[5] \in Digits

\* A match of (\d+)\s\d+ starting at i: the digits of group 1 end at j
NumberNoteAt(position, i, j) ==
    /\ i <= j /\ j + 2 <= Len(position)
    /\ IsDigits(SubSeq(position, i, j))
    /\ IsSpace(position[j + 1])
    /\ position[j + 2] \in Digits

\* Where the leftmost match of (\d+)\s\d+ starts
NumberNoteStart(position) ==
    CHOOSE a \in 1..Len(position) :
        /\ \E j \in 1..Len(position) : NumberNoteAt(position, a, j)
        /\ \A b \in 1..(a - 1) :
              \A j \in 1..Len(position) : ~NumberNoteAt(position, b, j)

\* match.group(0) of the match that starts at i, had the whole match been returned
NumberNoteWhole(position, i) ==
    SubSeq(position, i,
           CHOOSE e \in i..Len(position) :
               /\ \E j \in i..(e - 2) :
                     NumberNoteAt(position, i, j) /\ IsDigits(SubSeq(position, j + 2, e))
               /\ (e = Len(position) \/ position[e + 1] \notin Digits))

\* match.groups()[0] of the match that starts at i
NumberNoteGroup(position, i) ==
    SubSeq(position, i, CHOOSE e \in 1..Len(position) : NumberNoteAt(position, i, e))

convert_position(position) ==
    IF position = <<"D", "S", "Q">> \/ position = <<"R", "e", "t">> THEN position
    ELSE IF MatchesDSQNote(position) THEN <<"D", "S", "Q">>
    ELSE IF \E i, j \in 1..Len(position) : NumberNoteAt(position, i, j)
    THEN NumberNoteGroup(position, NumberNoteStart(position))
    ELSE position

SetMax(S) == CHOOSE x \in S : \A y \in S : y <= x

\* the numeric, non-missing values of the Time/Retired column, in ms
NumericTimes(df) == {df[i].Time.ms : i \in {k \in 1..Len(df) : df[k].Time.kind = "num"}}

\* last_time, had the smallest numeric time been taken
LastTimeMin(df) ==
    IF NumericTimes(df) = {} THEN NaN
    ELSE Num(CHOOSE x \in NumericTimes(df) : \A y \in NumericTimes(df) : x <= y)

\* df["Time/Retired"][notna & isinstance(x, (int, float))].max(); NaN when none
LastTime(df) == IF NumericTimes(df) = {} THEN NaN ELSE Num(SetMax(NumericTimes(df)))

\* df.loc[df["Time/Retired"].isna(), "Time/Retired"] = last_time
FillMissingTimes(df, last_time) ==
    [i \in 1..Len(df) |->
        IF df[i].Time.kind = "nan" THEN [df[i] EXCEPT !.Time = last_time] ELSE df[i]]

\* df["Time/Retired"].apply(lambda x: time_to_decimal(first_time, x))
ApplyTimes(df, ft) ==
    [i \in 1..Len(df) |-> [df[i] EXCEPT !.Time = time_to_decimal(ft, @)]]

\* df["Pos."].apply(convert_position)
ApplyPositions(df) ==
    [i \in 1..Len(df) |-> [df[i] EXCEPT !.Pos = convert_position(@)]]

\* the rows of df[(df["Pos."] == "1") | (df["Pos."] == 1)]
Winners(df) == {i \in 1..Len(df) : df[i].Pos = <<"1">>}

\* ...["Time/Retired"].iloc[0]
PrimerTiempo(df) == df[CHOOSE i \in Winners(df) : \A k \in Winners(df) : i <= k].Time

\* lines 116-124, for the table with its times converted
CleanWikiFill(timed) == [ok |-> TRUE, df |-> FillMissingTimes(timed, LastTime(timed))]

\* lines 109-124, for the match of the winner's time; .group of None raises
CleanWikiTimes(df, match_first_time) ==
    IF ~match_first_time.ok THEN [ok |-> FALSE, error |-> "AttributeError"]
    ELSE CleanWikiFill(ApplyTimes(df, MatchMs(match_first_time)))

\* clean_WIKI_df, had a table without a winner been given the reference time 0
CleanWikiDefaultWinner(df) ==
    IF Winners(df) = {} THEN CleanWikiFill(ApplyTimes(df, 0))
    ELSE CleanWikiTimes(df, TimePatternMatch(PrimerTiempo(df)))

\* lines 105-124, for the table with its positions converted; .iloc[0] of no
\* row raises
CleanWikiWinner(df) ==
    IF Winners(df) = {} THEN [ok |-> FALSE, error |-> "IndexError"]
    ELSE CleanWikiTimes(df, TimePatternMatch(PrimerTiempo(df)))

\* The Pos. and Time/Retired columns of clean_WIKI_df (the Points column is
\* not among the columns of a row here)
clean_WIKI_df(df) == CleanWikiWinner(ApplyPositions(df))

\* lines 35-44, for the result of clean_WIKI_df
CleanDfsOf(year, api, w) ==
    IF w.ok THEN [ok |-> TRUE, api_df |-> clean_API_df(api, year), wiki_df |-> w.df]
    ELSE w

\* clean_dfs, given the two tables its read_csv calls return
clean_dfs(year, api, wiki) == CleanDfsOf(year, api, clean_WIKI_df(wiki))

(***************************************************************************)
(* merge.py: the join of one paired race (process_year_dict, lines 113-121) *)
(***************************************************************************)
JoinedRow(l, r) ==
    [DriverId |-> l.DriverId, DriverNumber |-> l.DriverNumber,
     Pos |-> r.Pos, No |-> r.No, Time |-> r.Time]

RECURSIVE MatchesOf(_, _)
\* the rows of the right table whose No. equals the left row's DriverNumber, joined
\* to it, in the right table's order (pandas matches a missing key to a missing key)
MatchesOf(l, right) ==
    IF right = <<>> THEN <<>>
    ELSE (IF l.DriverNumber = Head(right).No THEN <<JoinedRow(l, Head(right))>> ELSE <<>>)
         \o MatchesOf(l, Tail(right))

\* A left row no right row matches, as how="left" and how="outer" keep it
LeftOnlyRow(l) ==
    [DriverId |-> l.DriverId, DriverNumber |-> l.DriverNumber,
     Pos |-> <<"n", "a", "n">>, No |-> NanCell, Time |-> NaN]

\* A right row no left row matches, as how="outer" keeps it
RightOnlyRow(r) ==
    [DriverId |-> "nan", DriverNumber |-> NanCell,
     Pos |-> r.Pos, No |-> r.No, Time |-> r.Time]

RECURSIVE LeftMerge(_, _)
\* the merge, had it been written with how="left"
LeftMerge(left, right) ==
    IF left = <<>> THEN <<>>
    ELSE (IF MatchesOf(Head(left), right) = <<>> THEN <<LeftOnlyRow(Head(left))>>
          ELSE MatchesOf(Head(left), right))
         \o LeftMerge(Tail(left), right)

RECURSIVE UnmatchedRight(_, _)
UnmatchedRight(left, right) ==
    IF right = <<>> THEN <<>>
    ELSE (IF \E i \in 1..Len(left) : left[i].DriverNumber = Head(right).No THEN <<>>
          ELSE <<RightOnlyRow(Head(right))>>)
         \o UnmatchedRight(left, Tail(right))

\* the merge, had it been written with how="outer"
OuterMerge(left, right) == LeftMerge(left, right) \o UnmatchedRight(left, right)

RECURSIVE InnerMerge(_, _)
\* api_df.merge(right=wiki_df, left_on="DriverNumber", right_on="No.", how="inner")
InnerMerge(left, right) ==
    IF left = <<>> THEN <<>>
    ELSE MatchesOf(Head(left), right) \o InnerMerge(Tail(left), right)

\* merged_df["Season"] = season; merged_df["RaceNumber"] = race_number
Stamp(df, year, race) ==
    [i \in 1..Len(df) |->
        [DriverId |-> df[i].DriverId, DriverNumber |-> df[i].DriverNumber,
         Pos |-> df[i].Pos, No |-> df[i].No, Time |-> df[i].Time,
         Season |-> year, RaceNumber |-> race]]

\* the else branch of process_year_dict for two cleaned tables
MergeRace(api, wiki, year, race) == Stamp(InnerMerge(api, wiki), year, race)

(***************************************************************************)
(* One paired race: the tables its two files hold.  An API file has one row *)
(* per driverId, in driverId order (get_year_round_df groups by driverId),  *)
(* with the number the mapping gives or NaN.                                *)
(***************************************************************************)
MaxApiRows == 2
MaxWikiRows == 2

Seasons == {2021, 2022, 2023}
DriverIdOrder == <<"hamilton", "lawson", "max_verstappen">>
ApiNumbers == {NumCell(1), NumCell(33), NumCell(40), NanCell}
CarNumbers == {NumCell(1), NumCell(33), NumCell(40)}

RECURSIVE ApiTableOf(_, _)
\* the table of the drivers of dom, numbered by f, from the k-th driverId on
ApiTableOf(f, k) ==
    IF k > Len(DriverIdOrder) THEN <<>>
    ELSE (IF DriverIdOrder[k] \in DOMAIN f
          THEN <<[DriverId |-> DriverIdOrder[k], DriverNumber |-> f[DriverIdOrder[k]]]>>
          ELSE <<>>)
         \o ApiTableOf(f, k + 1)

ApiTables ==
    UNION { {ApiTableOf(f, 1) : f \in [ids -> ApiNumbers]} :
            ids \in {d \in SUBSET {DriverIdOrder[k] : k \in 1..Len(DriverIdOrder)} :
                        Cardinality(d) <= MaxApiRows} }

WikiRows ==
    [Pos : {<<"1">>}, No : CarNumbers,
     Time : {<<"1", ":", "3", "2", ":", "0", "5", ".", "1", "2", "3">>}]
    \cup [Pos : {<<"2">>}, No : CarNumbers,
          Time : {<<"+", "1", ":", "0", "2", ".", "4", "5", "6">>}]

WikiTables == UNION {[1..n -> WikiRows] : n \in 0..MaxWikiRows}

InitJoin ==
    /\ TimeIdle
    /\ YearIdle
    /\ RunIdle
    /\ RestIdle
    /\ season \in Seasons
    /\ race_number = 1
    /\ api_in \in ApiTables
    /\ wiki_in \in WikiTables
    /\ api_df = <<>>
    /\ wiki_df = <<>>
    /\ merged_df = <<>>
    /\ jpc = "clean"

\* api_df, wiki_df = clean_dfs(year_dir, df_list); an exception ends the race
JoinClean ==
    /\ jpc = "clean"
    /\ LET r == clean_dfs(season, api_in, wiki_in)
       IN IF r.ok
          THEN /\ api_df' = r.api_df
               /\ wiki_df' = r.wiki_df
               /\ jpc' = "merge"
          ELSE /\ jpc' = r.error
               /\ UNCHANGED <<api_df, wiki_df>>
    /\ UNCHANGED <<season, race_number, api_in, wiki_in, merged_df, timeVars, yearVars,
                   runVars, restVars>>

\* the merge and the two stamped columns
JoinMerge ==
    /\ jpc = "merge"
    /\ merged_df' = MergeRace(api_df, wiki_df, season, race_number)
    /\ jpc' = "done"
    /\ UNCHANGED <<season, race_number, api_in, wiki_in, api_df, wiki_df, timeVars,
                   yearVars, runVars, restVars>>

NextJoin == JoinClean \/ JoinMerge

SpecJoin == InitJoin /\ [][NextJoin]_vars

Min(a, b) == IF a <= b THEN a ELSE b

\* No two rows of an API-side table carry the same DriverNumber (a missing
\* number counts as a value, as it does for the merge)
UniqueDriverNumbers(df) ==
    \A i, j \in 1..Len(df) : df[i].DriverNumber = df[j].DriverNumber => i = j

UniqueDriverIds(df) ==
    \A i, j \in 1..Len(df) : df[i].DriverId = df[j].DriverId => i = j

\* No two rows of a wiki table carry the same car number
UniqueCarNumbers(df) ==
    \A i, j \in 1..Len(df) : df[i].No = df[j].No => i = j

\* Every joined row's driver number is a DriverNumber of the cleaned API table
\* and a No. of the cleaned wiki table
JoinedInBoth ==
    \A k \in 1..Len(merged_df) :
        /\ \E i \in 1..Len(api_df) : api_df[i].DriverNumber = merged_df[k].DriverNumber
        /\ \E i \in 1..Len(wiki_df) : wiki_df[i].No = merged_df[k].DriverNumber

(***************************************************************************)
(* C6 as stated: for every paired race the joined table has at most         *)
(* min(rows of the cleaned API table, rows of the cleaned wiki table) rows, *)
(* and every joined row's driver number occurs in both cleaned tables.      *)
(***************************************************************************)
C6_JoinBound ==
    jpc = "done" =>
        /\ Len(merged_df) <= Min(Len(api_df), Len(wiki_df))
        /\ JoinedInBoth

(***************************************************************************)
(* C6 amended: every joined row's driver number occurs in both cleaned      *)
(* tables; the joined table has at most min(rows of the cleaned API table,  *)
(* rows of the cleaned wiki table) rows when no DriverNumber is repeated in *)
(* the cleaned API table and no car number is repeated in the cleaned wiki  *)
(* table.                                                                   *)
(***************************************************************************)
C6_JoinBoundUniqueKeys ==
    jpc = "done" =>
        /\ JoinedInBoth
        /\ (UniqueDriverNumbers(api_df) /\ UniqueCarNumbers(wiki_df)) =>
              Len(merged_df) <= Min(Len(api_df), Len(wiki_df))

\* A race joined from tables with unrepeated keys, in which a driver of the
\* API table has no row in the wiki table and is dropped
C6_Witness ==
    /\ jpc = "done"
    /\ UniqueDriverNumbers(api_df) /\ UniqueCarNumbers(wiki_df)
    /\ Len(merged_df) >= 1
    /\ Len(merged_df) < Len(api_df)

(***************************************************************************)
(* C7 as stated: no two rows of a race's joined table have the same         *)
(* DriverNumber, for every pair of input tables in which each driver        *)
(* identifier (API side) and each car number (wiki side) occurs once.       *)
(***************************************************************************)
C7_UniqueDriverNumber ==
    (jpc = "done" /\ UniqueDriverIds(api_in) /\ UniqueCarNumbers(wiki_in)) =>
        UniqueDriverNumbers(merged_df)

(***************************************************************************)
(* C7 amended: no two rows of a race's joined table have the same           *)
(* DriverNumber, for every pair of input tables in which each DriverNumber  *)
(* occurs once in the API table after the historical correction and each    *)
(* car number occurs once in the wiki table.                                *)
(***************************************************************************)
C7_UniqueDriverNumberUniqueKeys ==
    (jpc = "done" /\ UniqueDriverNumbers(api_df) /\ UniqueCarNumbers(wiki_in)) =>
        UniqueDriverNumbers(merged_df)

\* A 2022 race in which max_verstappen's 33 was corrected to 1 and two drivers
\* were joined
C7_Witness ==
    /\ jpc = "done"
    /\ season >= 2022
    /\ UniqueDriverNumbers(api_df) /\ UniqueCarNumbers(wiki_in)
    /\ Len(merged_df) >= 2
    /\ \E i \in 1..Len(api_in) :
          /\ api_in[i].DriverId = "max_verstappen"
          /\ api_in[i].DriverNumber = NumCell(33)
          /\ \E k \in 1..Len(merged_df) :
                /\ merged_df[k].DriverId = "max_verstappen"
                /\ merged_df[k].DriverNumber = NumCell(1)

(***************************************************************************)
(* merge.py: one season (merge_year_files).  A file name TAG_NUMBER_REST is *)
(* [tag, num, slug] (the slug of an API file is its year); NUMBER is        *)
(* written from an integer by both writers (jolpica.py:152,                 *)
(* crawler.py:98), so the key filename.split("_")[1] and                    *)
(* the sort key int(...) are one integer here.  A season directory holds    *)
(* at most one API file per round (API_{round}_{year}.csv); the wiki files  *)
(* of one round differ in the race slug.  year_dict is a sequence of        *)
(* [key, files] in insertion order.                                         *)
(***************************************************************************)
ApiFile(n, year) == [tag |-> "API", num |-> n, slug |-> ToString(year)]
WikiFile(n, sl) == [tag |-> "WIKI", num |-> n, slug |-> sl]

get_race_number(filename) == filename.num

SetMin(S) == CHOOSE x \in S : \A y \in S : x <= y

RECURSIVE SortedApiFiles(_, _)
\* sorted([... if data_file.startswith("API")], key=lambda x: int(x.split("_")[1]))
SortedApiFiles(year, rounds) ==
    IF rounds = {} THEN <<>>
    ELSE <<ApiFile(SetMin(rounds), year)>> \o SortedApiFiles(year, rounds \ {SetMin(rounds)})

\* {get_race_number(api_file): [api_file] for api_file in api_files}
NewYearDict(api_files) ==
    [i \in 1..Len(api_files) |->
        [key |-> get_race_number(api_files[i]), files |-> <<api_files[i]>>]]

HasKey(year_dict, k) == \E i \in 1..Len(year_dict) : year_dict[i].key = k

\* year_dict[race_number].append(wiki_file)
AppendTo(year_dict, k, wiki_file) ==
    [i \in 1..Len(year_dict) |->
        IF year_dict[i].key = k
        THEN [year_dict[i] EXCEPT !.files = Append(@, wiki_file)]
        ELSE year_dict[i]]

RECURSIVE AddWikiDropMissing(_, _, _)
\* add_wiki_to_dict, had the KeyError been swallowed without recording the file
AddWikiDropMissing(wiki_files, year_dict, failed) ==
    IF wiki_files = <<>> THEN [year_dict |-> year_dict, wiki_failed |-> failed]
    ELSE IF HasKey(year_dict, get_race_number(Head(wiki_files)))
    THEN AddWikiDropMissing(Tail(wiki_files),
             AppendTo(year_dict, get_race_number(Head(wiki_files)), Head(wiki_files)),
             failed)
    ELSE AddWikiDropMissing(Tail(wiki_files), year_dict, failed)

RECURSIVE AddWikiCountTwice(_, _, _)
\* add_wiki_to_dict, had a paired WIKI file also been put in wiki_failed
AddWikiCountTwice(wiki_files, year_dict, failed) ==
    IF wiki_files = <<>> THEN [year_dict |-> year_dict, wiki_failed |-> failed]
    ELSE IF HasKey(year_dict, get_race_number(Head(wiki_files)))
    THEN AddWikiCountTwice(Tail(wiki_files),
             AppendTo(year_dict, get_race_number(Head(wiki_files)), Head(wiki_files)),
             Append(failed, Head(wiki_files)))
    ELSE AddWikiCountTwice(Tail(wiki_files), year_dict, Append(failed, Head(wiki_files)))

RECURSIVE add_wiki_to_dict(_, _, _)
\* the year_dict and wiki_failed the loop leaves
add_wiki_to_dict(wiki_files, year_dict, failed) ==
    IF wiki_files = <<>> THEN [year_dict |-> year_dict, wiki_failed |-> failed]
    ELSE IF HasKey(year_dict, get_race_number(Head(wiki_files)))
    THEN add_wiki_to_dict(Tail(wiki_files),
             AppendTo(year_dict, get_race_number(Head(wiki_files)), Head(wiki_files)),
             failed)
    ELSE add_wiki_to_dict(Tail(wiki_files), year_dict, Append(failed, Head(wiki_files)))

\* The tables the files of a season hold
ApiFileTable ==
    << [DriverId |-> "lawson", DriverNumber |-> NumCell(40)],
       [DriverId |-> "max_verstappen", DriverNumber |-> NumCell(33)] >>

WikiFileTable ==
    << [Pos |-> <<"1">>, No |-> NumCell(33),
        Time |-> <<"1", ":", "3", "2", ":", "0", "5", ".", "1", "2", "3">>],
       [Pos |-> <<"2">>, No |-> NumCell(40),
        Time |-> <<"+", "1", ":", "0", "2", ".", "4", "5", "6">>] >>

\* pd.read_csv of a WIKI file: the files of broken lack the Position 1 row
ReadWiki(wiki_file, broken) ==
    IF wiki_file \in broken THEN Tail(WikiFileTable) ELSE WikiFileTable

\* lines 113-121 for the result of clean_dfs: the table appended, or the exception
MergeCleaned(cleaned, year, race) ==
    IF cleaned.ok
    THEN [ok |-> TRUE, df |-> MergeRace(cleaned.api_df, cleaned.wiki_df, year, race)]
    ELSE cleaned

\* The else branch of process_year_dict; "api_df_name, wiki_df_name = df_list"
\* raises ValueError for a list of more than two names
ProcessPair(year, entry, broken) ==
    IF Len(entry.files) # 2 THEN [ok |-> FALSE, error |-> "ValueError"]
    ELSE MergeCleaned(clean_dfs(year, ApiFileTable, ReadWiki(entry.files[2], broken)),
                      year, entry.key)

RECURSIVE process_year_dict(_, _, _, _, _)
\* the rest of the loop after a pair: an exception leaves the function
ProcessNext(year, year_dict, broken, merged, failed, pair) ==
    IF pair.ok
    THEN process_year_dict(year, Tail(year_dict), broken, Append(merged, pair.df), failed)
    ELSE pair

RECURSIVE ProcessYearPartial(_, _, _, _, _)
\* process_year_dict, had a group of one file also been joined (how="left")
ProcessYearPartial(year, year_dict, broken, merged, failed) ==
    IF year_dict = <<>> THEN [ok |-> TRUE, merged_dfs |-> merged, api_failed |-> failed]
    ELSE IF Len(Head(year_dict).files) = 1
    THEN ProcessYearPartial(year, Tail(year_dict), broken,
             Append(merged, Stamp(LeftMerge(clean_API_df(ApiFileTable, year), <<>>),
                                  year, Head(year_dict).key)),
             Append(failed, Head(year_dict).files[1]))
    ELSE ProcessNext(year, year_dict, broken, merged, failed,
                     ProcessPair(year, Head(year_dict), broken))

\* the loop over year_dict.items(): merged_dfs and api_failed, or the exception
process_year_dict(year, year_dict, broken, merged, failed) ==
    IF year_dict = <<>> THEN [ok |-> TRUE, merged_dfs |-> merged, api_failed |-> failed]
    ELSE IF Len(Head(year_dict).files) = 1
    THEN process_year_dict(year, Tail(year_dict), broken, merged,
                           Append(failed, Head(year_dict).files[1]))
    ELSE ProcessNext(year, year_dict, broken, merged, failed,
                     ProcessPair(year, Head(year_dict), broken))

\* return merged_dfs, api_failed, wiki_failed
ReturnYear(processed, failed) ==
    IF processed.ok
    THEN [ok |-> TRUE, merged_dfs |-> processed.merged_dfs,
          api_failed |-> processed.api_failed, wiki_failed |-> failed]
    ELSE processed

\* lines 89-91, for what add_wiki_to_dict left
ProcessAdded(year, added, broken) ==
    ReturnYear(process_year_dict(year, added.year_dict, broken, <<>>, <<>>),
               added.wiki_failed)

merge_year_files(year, api_rounds, wiki_files, broken) ==
    ProcessAdded(year,
                 add_wiki_to_dict(wiki_files, NewYearDict(SortedApiFiles(year, api_rounds)), <<>>),
                 broken)

(***************************************************************************)
(* One season directory and one call of merge_year_files                    *)
(***************************************************************************)
MaxRound == 3
MaxWikiFiles == 2

Rounds == 1..MaxRound
RaceSlugs == {"a", "b"}
YearDirs == {2021, 2022}
WikiFiles == {WikiFile(n, sl) : n \in Rounds, sl \in RaceSlugs}

Range(f) == {f[i] : i \in DOMAIN f}

\* The orders in which a directory can list k of the files of S
ListingsOf(S, k) == {f \in [1..k -> S] : \A i, j \in 1..k : f[i] = f[j] => i = j}

WikiListings == UNION {ListingsOf(WikiFiles, k) : k \in 0..MaxWikiFiles}

InitYear ==
    /\ TimeIdle
    /\ JoinIdle
    /\ RunIdle
    /\ RestIdle
    /\ year_dir \in YearDirs
    /\ dir_api \in SUBSET Rounds
    /\ dir_wiki \in WikiListings
    /\ dir_broken \in SUBSET Range(dir_wiki)
    /\ merged_dfs = <<>>
    /\ api_failed = <<>>
    /\ wiki_failed = <<>>
    /\ ypc = "call"

\* return merged_dfs, api_failed, wiki_failed, or the exception that leaves
YearReturns(r) ==
    IF r.ok
    THEN /\ merged_dfs' = r.merged_dfs
         /\ api_failed' = r.api_failed
         /\ wiki_failed' = r.wiki_failed
         /\ ypc' = "done"
    ELSE /\ ypc' = r.error
         /\ UNCHANGED <<merged_dfs, api_failed, wiki_failed>>

\* merged_dfs, api_failed, wiki_failed = merge_year_files(year_dir)
MergeYearFiles ==
    /\ ypc = "call"
    /\ YearReturns(merge_year_files(year_dir, dir_api, dir_wiki, dir_broken))
    /\ UNCHANGED <<year_dir, dir_api, dir_wiki, dir_broken, timeVars, joinVars, runVars, restVars>>

NextYear == MergeYearFiles

SpecYear == InitYear /\ [][NextYear]_vars

\* The race numbers of the WIKI files of the directory
WikiRounds == {dir_wiki[i].num : i \in 1..Len(dir_wiki)}

NoRepeats(sq) == \A i, j \in 1..Len(sq) : sq[i] = sq[j] => i = j

\* api_failed and wiki_failed are exactly the one-sided files, each once
FailedListsExact ==
    /\ Range(api_failed) = {ApiFile(n, year_dir) : n \in dir_api \ WikiRounds}
    /\ NoRepeats(api_failed)
    /\ Range(wiki_failed) = {f \in Range(dir_wiki) : f.num \notin dir_api}
    /\ NoRepeats(wiki_failed)

\* No race number that has an API file has two WIKI files
OneWikiPerApiRace ==
    \A i, j \in 1..Len(dir_wiki) :
        (dir_wiki[i].num = dir_wiki[j].num /\ dir_wiki[i].num \in dir_api) => i = j

\* Every WIKI file of a paired race holds a table with a Position-1 row
PairedTablesClean == \A f \in dir_broken : f.num \notin dir_api

RaceOf(df) == IF df = <<>> THEN 0 ELSE df[1].RaceNumber

(***************************************************************************)
(* C2: the list of merged tables merge_year_files returns holds exactly one *)
(* table per race number that has both an API file and a WIKI file, and no  *)
(* table for a race number present on one side only.                        *)
(***************************************************************************)
C2_MergedPerPairedRace ==
    ypc = "done" =>
        /\ \A n \in dir_api \cap WikiRounds :
              Cardinality({i \in 1..Len(merged_dfs) : RaceOf(merged_dfs[i]) = n}) = 1
        /\ \A i \in 1..Len(merged_dfs) : RaceOf(merged_dfs[i]) \in dir_api \cap WikiRounds
        /\ \A i \in 1..Len(merged_dfs) :
              \A k \in 1..Len(merged_dfs[i]) :
                  merged_dfs[i][k].RaceNumber = RaceOf(merged_dfs[i])

\* Races 1 and 2 paired and merged, race 3 on the API side only and reported
C2_Witness ==
    /\ ypc = "done"
    /\ Len(merged_dfs) = 2
    /\ dir_api \cap WikiRounds = {1, 2}
    /\ api_failed = <<ApiFile(3, year_dir)>>

\* The year_dict the pairing of the directory's filenames leaves
PairedDict ==
    add_wiki_to_dict(dir_wiki, NewYearDict(SortedApiFiles(year_dir, dir_api)), <<>>).year_dict

\* The API_* and WIKI_* filenames of the directory
DirFiles == {ApiFile(n, year_dir) : n \in dir_api} \cup Range(dir_wiki)

\* How many times a filename occurs in a list of filenames
TimesIn(f, sq) == Cardinality({i \in 1..Len(sq) : sq[i] = f})

\* How many times a filename occurs in the groups of more than one file
TimesPaired(f) ==
    Cardinality({ik \in (1..Len(PairedDict)) \X (1..(MaxWikiFiles + 1)) :
                    /\ Len(PairedDict[ik[1]].files) > 1
                    /\ ik[2] <= Len(PairedDict[ik[1]].files)
                    /\ PairedDict[ik[1]].files[ik[2]] = f})

\* Every filename is in exactly one of a paired group, api_failed, wiki_failed
FilesPartitioned ==
    /\ \A f \in DirFiles :
          TimesPaired(f) + TimesIn(f, api_failed) + TimesIn(f, wiki_failed) = 1
    /\ Range(api_failed) \cup Range(wiki_failed) \subseteq DirFiles

\* Every group holds at most one API and at most one WIKI filename
GroupsOfOneOrTwo ==
    \A i \in 1..Len(PairedDict) :
        /\ Len(PairedDict[i].files) \in {1, 2}
        /\ Cardinality({k \in 1..Len(PairedDict[i].files) :
                           PairedDict[i].files[k].tag = "API"}) <= 1
        /\ Cardinality({k \in 1..Len(PairedDict[i].files) :
                           PairedDict[i].files[k].tag = "WIKI"}) <= 1

RunMaxRound == 2
MaxFiles == 4

RunYears == {2021, 2022}
RunRounds == 1..RunMaxRound

RunWikiFiles(year) == {WikiFile(n, ToString(year)) : n \in RunRounds}

RunWikiListings(year) ==
    UNION {ListingsOf(RunWikiFiles(year), k) : k \in 0..RunMaxRound}

\* At most one WIKI table of the run lacks its Position 1 row
BrokenChoices(w) == {{}} \cup {{w[i]} : i \in 1..Len(w)}

\* What one season directory can hold
YearContents(year) ==
    UNION {{[api |-> a, wiki |-> w, broken |-> b] :
                a \in SUBSET RunRounds, b \in BrokenChoices(w)} :
           w \in RunWikiListings(year)}

EmptyYear == [api |-> {}, wiki |-> <<>>, broken |-> {}]

FileCount(c) == Cardinality(c.api) + Len(c.wiki)

FileSystems ==
    {f \in {[y \in RunYears |-> IF y = 2021 THEN c1 ELSE c2] :
                c1 \in YearContents(2021), c2 \in YearContents(2022)} :
        /\ FileCount(f[2021]) + FileCount(f[2022]) <= MaxFiles
        /\ Cardinality(f[2021].broken) + Cardinality(f[2022].broken) <= 1}

\* The orders os.listdir(BASE) can give: every season that holds a file is listed
BaseListings(f) ==
    {l \in UNION {ListingsOf(RunYears, k) : k \in 0..Cardinality(RunYears)} :
        \A y \in RunYears : FileCount(f[y]) > 0 => y \in Range(l)}

Init ==
    /\ TimeIdle
    /\ JoinIdle
    /\ YearIdle
    /\ RestIdle
    /\ data_exists \in BOOLEAN
    /\ fs \in IF data_exists THEN FileSystems ELSE {[y \in RunYears |-> EmptyYear]}
    /\ base_listing \in IF data_exists THEN BaseListings(fs) ELSE {<<>>}
    /\ year_dirs = <<>>
    /\ yi = 0
    /\ all_merged = <<>>
    /\ all_api_failed = <<>>
    /\ all_wiki_failed = <<>>
    /\ combined_df = <<>>
    /\ csv_written = FALSE
    /\ pc = "listdir"

\* os.listdir(BASE), had a missing directory been listed as an empty one
ListDirMissingAsEmpty(exists, listing) ==
    [ok |-> TRUE, names |-> IF exists THEN listing ELSE <<>>]

\* os.listdir(BASE) inside the try: the names, or FileNotFoundError re-raised
ListDir(exists, listing) ==
    IF exists THEN [ok |-> TRUE, names |-> listing]
    ELSE [ok |-> FALSE, error |-> "FileNotFoundError"]

BaseListed(r) ==
    IF r.ok
    THEN /\ year_dirs' = r.names
         /\ pc' = "loop"
    ELSE /\ pc' = r.error
         /\ UNCHANGED year_dirs

\* lines 33-42: list the season directories and start the three lists
ListBase ==
    /\ pc = "listdir"
    /\ BaseListed(ListDir(data_exists, base_listing))
    /\ UNCHANGED <<data_exists, base_listing, fs, yi, all_merged, all_api_failed,
                   all_wiki_failed, combined_df, csv_written, timeVars, joinVars, yearVars, restVars>>

\* merge_year_files for the files season year holds in file system f
MergeYearOf(f, year) ==
    merge_year_files(year, f[year].api, f[year].wiki, f[year].broken)

\* lines 46-49: extend the three lists, or let the exception leave the run
YearMerged(r) ==
    IF r.ok
    THEN /\ all_merged' = all_merged \o r.merged_dfs
         /\ all_api_failed' = all_api_failed \o r.api_failed
         /\ all_wiki_failed' = all_wiki_failed \o r.wiki_failed
         /\ yi' = yi + 1
         /\ pc' = "loop"
    ELSE /\ pc' = r.error
         /\ UNCHANGED <<all_merged, all_api_failed, all_wiki_failed, yi>>

\* one iteration of "for year_dir in year_dirs"
YearLoop ==
    /\ pc = "loop"
    /\ yi < Len(year_dirs)
    /\ YearMerged(MergeYearOf(fs, year_dirs[yi + 1]))
    /\ UNCHANGED <<data_exists, base_listing, fs, year_dirs, combined_df, csv_written,
                   timeVars, joinVars, yearVars, restVars>>

RECURSIVE Flatten(_)
\* pd.concat(all_merged, ignore_index=True)
Flatten(dfs) == IF dfs = <<>> THEN <<>> ELSE Head(dfs) \o Flatten(Tail(dfs))

\* drop("No."), rename Pos. to Position
Present(df) ==
    [i \in 1..Len(df) |->
        [DriverId |-> df[i].DriverId, DriverNumber |-> df[i].DriverNumber,
         Position |-> df[i].Pos, Time |-> df[i].Time,
         Season |-> df[i].Season, RaceNumber |-> df[i].RaceNumber]]

\* lines 52-59: pd.concat raises ValueError for an empty list ("No objects to
\* concatenate"); otherwise the dataset is built, written and returned
Concat ==
    /\ pc = "loop"
    /\ yi = Len(year_dirs)
    /\ IF all_merged = <<>>
       THEN /\ pc' = "ValueError"
            /\ UNCHANGED <<combined_df, csv_written>>
       ELSE /\ combined_df' = Present(Flatten(all_merged))
            /\ csv_written' = TRUE
            /\ pc' = "done"
    /\ UNCHANGED <<data_exists, base_listing, fs, year_dirs, yi, all_merged,
                   all_api_failed, all_wiki_failed, timeVars, joinVars, yearVars, restVars>>

Next == ListBase \/ YearLoop \/ Concat

Spec == Init /\ [][Next]_vars

\* merge_API_WIKI has returned or raised
RunOver == pc \notin {"listdir", "loop"}

\* The races of the run that have both files
PairedRaces ==
    {yn \in RunYears \X RunRounds :
        /\ yn[1] \in Range(base_listing)
        /\ yn[2] \in fs[yn[1]].api
        /\ WikiFile(yn[2], ToString(yn[1])) \in Range(fs[yn[1]].wiki)}

BrokenRaces == {yn \in PairedRaces : WikiFile(yn[2], ToString(yn[1])) \in fs[yn[1]].broken}

\* The race (year, round) has rows in the final dataset
InDataset(yn) ==
    \E i \in 1..Len(combined_df) :
        combined_df[i].Season = yn[1] /\ combined_df[i].RaceNumber = yn[2]

(***************************************************************************)
(* C3: when the top-level data directory does not exist, merge_API_WIKI     *)
(* fails with FileNotFoundError before any season is processed, and         *)
(* results/merged.csv is not written in that run; no other failure of the   *)
(* run is reported as FileNotFoundError.                                    *)
(***************************************************************************)
C3_NoDataDirectory ==
    /\ (~data_exists /\ pc # "listdir") =>
          /\ pc = "FileNotFoundError"
          /\ yi = 0
          /\ all_merged = <<>>
          /\ ~csv_written
    /\ pc = "FileNotFoundError" => ~data_exists

C3_Witness ==
    /\ ~data_exists
    /\ pc = "FileNotFoundError"
    /\ ~csv_written

(***************************************************************************)
(* C4: a wiki table with no Position 1 row is fatal to its race only: the   *)
(* run continues to the next race and season, so every other paired race of *)
(* the run is merged and appears in the final dataset.                      *)
(***************************************************************************)
C4_RaceFailureIsolated ==
    (RunOver /\ BrokenRaces # {} /\ PairedRaces \ BrokenRaces # {}) =>
        /\ pc = "done"
        /\ \A yn \in PairedRaces \ BrokenRaces : InDataset(yn)

(***************************************************************************)
(* C5: whenever the data directory exists, pairing gaps are never fatal:    *)
(* for every mix of paired, API-only and WIKI-only races (a run with no     *)
(* paired race included), merge_API_WIKI completes, returns both failure    *)
(* lists and produces a dataset made of the rows of the paired races.       *)
(* Every table is well formed here.                                         *)
(***************************************************************************)
C5_PairingGapsNotFatal ==
    (RunOver /\ data_exists /\ \A y \in RunYears : fs[y].broken = {}) =>
        /\ pc = "done"
        /\ Len(all_api_failed) =
               Cardinality({yn \in RunYears \X RunRounds :
                   /\ yn[1] \in Range(base_listing)
                   /\ yn[2] \in fs[yn[1]].api
                   /\ yn \notin PairedRaces})
        /\ Len(all_wiki_failed) =
               Cardinality({yn \in RunYears \X RunRounds :
                   /\ yn[1] \in Range(base_listing)
                   /\ WikiFile(yn[2], ToString(yn[1])) \in Range(fs[yn[1]].wiki)
                   /\ yn \notin PairedRaces})
        /\ \A yn \in RunYears \X RunRounds : InDataset(yn) <=> yn \in PairedRaces

\* The listing of a set of files in ascending race-number order
RECURSIVE SortedByNum(_)
SortedByNum(files) ==
    IF files = {} THEN <<>>
    ELSE <<CHOOSE f \in files : \A g \in files : f.num <= g.num>>
         \o SortedByNum(files \ {CHOOSE f \in files : \A g \in files : f.num <= g.num})

RECURSIVE Ascending(_)
\* The years of a set in ascending order
Ascending(S) == IF S = {} THEN <<>> ELSE <<SetMin(S)>> \o Ascending(S \ {SetMin(S)})

\* The same files, each directory enumerated in ascending order
SortedFs == [y \in RunYears |-> [fs[y] EXCEPT !.wiki = SortedByNum(Range(fs[y].wiki))]]

RECURSIVE FailedOver(_, _, _, _)
\* The two failure lists of a run over the seasons of listing in file system f
FailedOver(listing, f, af, wf) ==
    IF listing = <<>> THEN [api_failed |-> af, wiki_failed |-> wf]
    ELSE FailedOver(Tail(listing), f,
                    af \o MergeYearOf(f, Head(listing)).api_failed,
                    wf \o MergeYearOf(f, Head(listing)).wiki_failed)

\* Entries of one season (the year is in the file name) ascend by race number
AscendingWithinSeason(failed) ==
    \A i, j \in 1..Len(failed) :
        (i < j /\ failed[i].slug = failed[j].slug) => failed[i].num < failed[j].num

(***************************************************************************)
(* C8: the failure lists are deterministic: api_failed and wiki_failed      *)
(* returned by the run are the sequences the same directories and files     *)
(* give under the ascending enumeration, whatever order the file system     *)
(* enumerated them in, and within one season the entries of each list are   *)
(* in ascending race-number order.                                          *)
(***************************************************************************)
C8_FailureListsDeterministic ==
    pc = "done" =>
        /\ all_api_failed =
               FailedOver(Ascending(Range(base_listing)),
                          SortedFs, <<>>, <<>>).api_failed
        /\ all_wiki_failed =
               FailedOver(Ascending(Range(base_listing)),
                          SortedFs, <<>>, <<>>).wiki_failed
        /\ AscendingWithinSeason(all_api_failed)
        /\ AscendingWithinSeason(all_wiki_failed)

(***************************************************************************)
(* One paired race whose wiki table carries the cells a classification      *)
(* table holds: annotated positions, absolute times, gaps, lap deficits and *)
(* retirement reasons.  The API table is the one of ApiFileTable.           *)
(***************************************************************************)
MaxRichRows == 3

WikiPositions == { <<"1">>, <<"1", " ", "1">>, <<"2">> }

WikiTimes ==
    { <<"1", ":", "3", "2", ":", "0", "5", ".", "1", "2", "3">>,
      <<"+", "1", ":", "0", "2", ".", "4", "5", "6">>,
      <<"+", "1", " ", "l", "a", "p">>,
      <<"E", "n", "g", "i", "n", "e">>,
      <<"+", "1", ":", "0", "2", ":", "0", "3">> }

RichWikiRows == [Pos : WikiPositions, No : {NumCell(33)}, Time : WikiTimes]

RichWikiTables == UNION {[1..n -> RichWikiRows] : n \in 0..MaxRichRows}

InitWiki ==
    /\ TimeIdle
    /\ YearIdle
    /\ RunIdle
    /\ RestIdle
    /\ season \in {2021}
    /\ race_number = 1
    /\ api_in = ApiFileTable
    /\ wiki_in \in RichWikiTables
    /\ api_df = <<>>
    /\ wiki_df = <<>>
    /\ merged_df = <<>>
    /\ jpc = "clean"

SpecWiki == InitWiki /\ [][NextJoin]_vars

\* clean_dfs has returned the cleaned tables of the race
Cleaned == jpc \in {"merge", "done"}

LapText == <<"l", "a", "p">>

(***************************************************************************)
(* C11: after clean_WIKI_df has processed a race table, every row whose raw *)
(* Time/Retired contained "lap" holds the maximum numeric time found among  *)
(* the rows of that race, and no row of the cleaned table holds the         *)
(* unresolved sentinel (NaN).                                               *)
(***************************************************************************)
C11_LapDeficitBackfill ==
    Cleaned =>
        /\ Len(wiki_df) = Len(wiki_in)
        /\ \A i \in 1..Len(wiki_in) :
              /\ Contains(wiki_in[i].Time, LapText) =>
                    /\ NumericTimes(wiki_df) # {}
                    /\ wiki_df[i].Time = Num(SetMax(NumericTimes(wiki_df)))
              /\ wiki_df[i].Time.kind # "nan"

\* A cleaned race with a gap row behind the winner and a lapped row, which
\* holds the gap row's time
C11_Witness ==
    /\ Cleaned
    /\ Len(wiki_in) = 3
    /\ \E i, j, k \in 1..3 :
          /\ Contains(wiki_in[i].Time, LapText)
          /\ wiki_in[j].Time = <<"+", "1", ":", "0", "2", ".", "4", "5", "6">>
          /\ wiki_df[i].Time = wiki_df[j].Time
          /\ wiki_df[k].Time.kind = "num"
          /\ wiki_df[k].Time.ms < wiki_df[i].Time.ms

(***************************************************************************)
(* C16: when a wiki race table has no row whose normalized Position equals  *)
(* 1, clean_WIKI_df raises an error that reaches the caller of the cleaner: *)
(* no cleaned table is returned and no merged row is produced for the race. *)
(***************************************************************************)
C16_NoWinnerRaises ==
    (jpc # "clean" /\ Winners(ApplyPositions(wiki_in)) = {}) =>
        /\ jpc = "IndexError"
        /\ wiki_df = <<>>
        /\ api_df = <<>>
        /\ merged_df = <<>>

\* A table with rows, none of them the winner's, and the error raised
C16_Witness ==
    /\ jpc = "IndexError"
    /\ Len(wiki_in) >= 1
    /\ \A i \in 1..Len(wiki_in) : wiki_in[i].Pos = <<"2">>
    /\ merged_df = <<>>

(***************************************************************************)
(* data_cleaning.py: the Points column (clean_WIKI_df lines 97-99,          *)
(* convert_to_int) and the Pos. column (convert_position), cell by cell.    *)
(* A Points cell is missing, a number of a column read_csv typed float64,   *)
(* or text: an integer followed by an annotation.                           *)
(***************************************************************************)
DigitChars == <<"0", "1", "2", "3", "4", "5", "6", "7", "8", "9">>

RECURSIVE DigitsOf(_)
\* str(n) of a natural number
DigitsOf(n) == IF n < 10 THEN <<DigitChars[n + 1]>>
               ELSE DigitsOf(n \div 10) \o <<DigitChars[(n % 10) + 1]>>

PointsValues == {0, 1, 2, 4, 6, 8, 10, 12, 15, 18, 25, 26}

\* Footnote numbers, as parse_report joins them (' '.join)
FootnoteNotes == { <<" ", "1">>, <<" ", "2">> }

\* The bracketed p marker, as written next to the number and as parse_report
\* joins its text nodes
PMarkerNotes == { <<".", "[", "p", "]">>, <<" ", "[", " ", "p", " ", "]">> }

PointsNotes == FootnoteNotes \cup PMarkerNotes \cup { <<>>, <<".">>, <<" ", "1", "2">> }

PointsCells ==
    [kind : {"missing"}, dtype : {"object", "float64"}]
    \cup [kind : {"float"}, n : PointsValues]
    \cup [kind : {"text"}, n : PointsValues, note : PointsNotes]

\* df["Points"].fillna(0) ... .astype(str), for one cell
PointsStr(cell) ==
    IF cell.kind = "missing"
    THEN (IF cell.dtype = "float64" THEN <<"0", ".", "0">> ELSE <<"0">>)
    ELSE IF cell.kind = "float" THEN DigitsOf(cell.n) \o <<".", "0">>
    ELSE DigitsOf(cell.n) \o cell.note

RECURSIVE SubNotes(_)
\* .str.replace(r" \d| \[ p \]$", "", regex=True)
SubNotes(s) ==
    IF s = <<>> THEN <<>>
    ELSE IF Len(s) >= 2 /\ s[1] = " " /\ s[2] \in Digits THEN SubNotes(SubSeq(s, 3, Len(s)))
    ELSE IF s = <<" ", "[", " ", "p", " ", "]">> THEN <<>>
    ELSE <<s[1]>> \o SubNotes(Tail(s))

\* int(...) of convert_to_int, for the text without its dots
IntOrError(t) ==
    IF IntOK(t) THEN [ok |-> TRUE, n |-> IntOf(t)] ELSE [ok |-> FALSE, error |-> "ValueError"]

\* int(number_str.strip().replace(".", ""))
convert_to_int(number_str) == IntOrError(RemoveChar(StripChars(number_str, {" "}), "."))

\* lines 97-99 for one cell
NormalizePoints(cell) == convert_to_int(SubNotes(PointsStr(cell)))

\* A Pos. cell: a position or DSQ with an optional footnote, or another token
PositionValues == {1, 2, 3, 10, 12, 20}
PositionNotes == { <<>>, <<" ", "1">>, <<" ", "1", "2">> }
DSQ == <<"D", "S", "Q">>
Ret == <<"R", "e", "t">>
OtherTokens == { Ret, <<"N", "C">>, <<"D", "N", "S">>, <<"R", "e", "t", " ", "1">> }

PositionCells ==
    [kind : {"num"}, n : PositionValues, note : PositionNotes]
    \cup [kind : {"dsq"}, note : PositionNotes]
    \cup [kind : {"token"}, text : OtherTokens]

\* str(position)
PositionStr(cell) ==
    IF cell.kind = "num" THEN DigitsOf(cell.n) \o cell.note
    ELSE IF cell.kind = "dsq" THEN DSQ \o cell.note
    ELSE cell.text

InitCells ==
    /\ TimeIdle
    /\ JoinIdle
    /\ YearIdle
    /\ RunIdle
    /\ FetchIdle
    /\ MainIdle
    /\ points_in \in PointsCells
    /\ points_out = <<>>
    /\ points_pc = "call"
    /\ position_in \in PositionCells
    /\ position_out = <<>>
    /\ position_pc = "call"

\* the three statements on df["Points"], for one cell
PointsCell ==
    /\ points_pc = "call"
    /\ points_out' = NormalizePoints(points_in)
    /\ points_pc' = "done"
    /\ UNCHANGED <<points_in, position_in, position_out, position_pc, timeVars, joinVars,
                   yearVars, runVars, fetchVars, mainVars>>

\* df["Pos."].apply(convert_position), for one cell
PositionCell ==
    /\ position_pc = "call"
    /\ position_out' = convert_position(PositionStr(position_in))
    /\ position_pc' = "done"
    /\ UNCHANGED <<position_in, points_in, points_out, points_pc, timeVars, joinVars,
                   yearVars, runVars, fetchVars, mainVars>>

NextCells == PointsCell \/ PositionCell

SpecCells == InitCells /\ [][NextCells]_vars

(***************************************************************************)
(* C12: for every points cell made of an integer followed by a trailing     *)
(* annotation (a footnote number such as "18 1", or a bracketed p marker    *)
(* such as "10.[p]"), Points normalization yields the integer that precedes *)
(* the annotation; a missing cell yields 0; the result is always an integer *)
(* >= 0.                                                                    *)
(***************************************************************************)
C12_PointsNormalization ==
    points_pc = "done" =>
        /\ points_out.ok
        /\ points_out.n >= 0
        /\ points_in.kind = "missing" => points_out.n = 0
        /\ (points_in.kind = "text" /\ points_in.note \in FootnoteNotes \cup PMarkerNotes) =>
              points_out.n = points_in.n

(***************************************************************************)
(* C13: for every position string made of a position followed by whitespace *)
(* and footnote digits (e.g. "3 1"), convert_position returns the bare      *)
(* position; every "DSQ <n>" returns "DSQ"; "DSQ" and "Ret" are returned    *)
(* unchanged.                                                               *)
(***************************************************************************)
C13_PositionAnnotations ==
    position_pc = "done" =>
        /\ (position_in.kind = "num" /\ position_in.note # <<>>) =>
              position_out = DigitsOf(position_in.n)
        /\ (position_in.kind = "dsq" /\ position_in.note # <<>>) => position_out = DSQ
        /\ PositionStr(position_in) \in {DSQ, Ret} => position_out = PositionStr(position_in)

\* "3 1" converted to "3"
C13_Witness ==
    /\ position_pc = "done"
    /\ PositionStr(position_in) = <<"3", " ", "1">>
    /\ position_out = <<"3">>

(***************************************************************************)
(* C19: for every input cell, the output of convert_position is either the  *)
(* decimal representation of an integer or one of the tokens DSQ and Ret.   *)
(***************************************************************************)
C19_PositionRange ==
    position_pc = "done" =>
        \/ position_out # <<>> /\ IsDigits(position_out)
        \/ position_out \in {DSQ, Ret}

(***************************************************************************)
(* One paired race whose API table carries all the columns                  *)
(* get_year_round_df writes: DriverId, NPitstops, MedianPitStopDuration and *)
(* DriverNumber.  The wiki table is the one of WikiFileTable.               *)
(***************************************************************************)
PitstopCounts == {1, 2}
MedianDurations == {Num(23100), NaN}

RichApiRowsOf(id) ==
    [DriverId : {id}, DriverNumber : ApiNumbers, NPitstops : PitstopCounts,
     MedianPitStopDuration : MedianDurations]

\* The rows of a driver in a race's table: none, or one
RichApiRowChoices(id) == {<<>>} \cup {<<r>> : r \in RichApiRowsOf(id)}

RichApiTables ==
    {h \o l \o m : h \in RichApiRowChoices(DriverIdOrder[1]),
                   l \in RichApiRowChoices(DriverIdOrder[2]),
                   m \in RichApiRowChoices(DriverIdOrder[3])}

InitApi ==
    /\ TimeIdle
    /\ YearIdle
    /\ RunIdle
    /\ RestIdle
    /\ season \in Seasons
    /\ race_number = 1
    /\ api_in \in RichApiTables
    /\ wiki_in = WikiFileTable
    /\ api_df = <<>>
    /\ wiki_df = <<>>
    /\ merged_df = <<>>
    /\ jpc = "clean"

SpecApi == InitApi /\ [][NextJoin]_vars

\* The number clean_API_df is to leave in a row: the override of the driver
\* from its season on, the number read otherwise
CorrectedNumber(row, year) ==
    IF row.DriverId = "max_verstappen" /\ year >= 2022 THEN NumCell(1)
    ELSE IF row.DriverId = "lawson" /\ year >= 2023 THEN NumCell(40)
    ELSE row.DriverNumber

(***************************************************************************)
(* C14: after clean_API_df(df, season) the row of max_verstappen has        *)
(* DriverNumber 1 if and only if season >= 2022 (otherwise its number is    *)
(* unchanged), the row of lawson has DriverNumber 40 if and only if         *)
(* season >= 2023 (otherwise unchanged), and the DriverNumber of every      *)
(* other driver and every other column of every row are unchanged.  (A row  *)
(* that already held the override keeps it in an earlier season: that is    *)
(* its number unchanged.)                                                   *)
(***************************************************************************)
C14_ApiFrame ==
    Cleaned =>
        /\ Len(api_df) = Len(api_in)
        /\ \A i \in 1..Len(api_in) :
              /\ api_df[i].DriverNumber = CorrectedNumber(api_in[i], season)
              /\ api_df[i].DriverId = api_in[i].DriverId
              /\ api_df[i].NPitstops = api_in[i].NPitstops
              /\ api_df[i].MedianPitStopDuration = api_in[i].MedianPitStopDuration
              /\ (api_in[i].DriverId = "max_verstappen" /\ api_in[i].DriverNumber # NumCell(1)) =>
                    (api_df[i].DriverNumber = NumCell(1) <=> season >= 2022)
              /\ (api_in[i].DriverId = "lawson" /\ api_in[i].DriverNumber # NumCell(40)) =>
                    (api_df[i].DriverNumber = NumCell(40) <=> season >= 2023)

\* A 2022 table: max_verstappen's 33 became 1, lawson and hamilton keep theirs
C14_Witness ==
    /\ Cleaned
    /\ season = 2022
    /\ Len(api_in) = 3
    /\ api_in[3].DriverNumber = NumCell(33) /\ api_df[3].DriverNumber = NumCell(1)
    /\ api_df[2].DriverNumber = api_in[2].DriverNumber
    /\ api_in[2].DriverNumber # NumCell(40)
    /\ api_df[1] = api_in[1]

(***************************************************************************)
(* jolpica.py: one round of get_year_dfs.  The mapping is the DataFrame     *)
(* get_pit_stops reads from results/drivers.csv: a driverId is absent from  *)
(* it, or present with a number, or present with NaN (no permanentNumber).  *)
(* The response is "ok" (status 200 and a race in Races), "empty" (status   *)
(* 200 and no race) or "error" (another status).                            *)
(***************************************************************************)
DriverIds == {DriverIdOrder[k] : k \in 1..Len(DriverIdOrder)}

Mappings == UNION {[ids -> ApiNumbers] : ids \in SUBSET DriverIds}

Responses == {"ok", "empty", "error"}

\* int(mapping.loc[driver_id]) in the try: KeyError gives np.nan; int() of a
\* NaN entry raises ValueError, which the except clause does not name
set_driver_number(driver_id, m) ==
    IF driver_id \notin DOMAIN m THEN [ok |-> TRUE, value |-> NanCell]
    ELSE IF m[driver_id].nan THEN [ok |-> FALSE, error |-> "ValueError"]
    ELSE [ok |-> TRUE, value |-> m[driver_id]]

\* pitstops["DriverId"].apply(set_driver_number): the column, or the exception
DriverNumberColumn(drivers, m) ==
    IF \E d \in drivers : ~set_driver_number(d, m).ok
    THEN [ok |-> FALSE, error |-> "ValueError"]
    ELSE [ok |-> TRUE,
          df |-> ApiTableOf([d \in drivers |-> set_driver_number(d, m).value], 1)]

\* The table of the round, or the exception raised
get_year_round_df(resp, drivers, m) ==
    IF resp # "ok" THEN [ok |-> FALSE, error |-> "RaceNotFoundError"]
    ELSE IF drivers = {} THEN [ok |-> FALSE, error |-> "KeyError"]
    ELSE DriverNumberColumn(drivers, m)

InitFetch ==
    /\ TimeIdle
    /\ JoinIdle
    /\ YearIdle
    /\ RunIdle
    /\ CellIdle
    /\ MainIdle
    /\ mapping \in Mappings
    /\ race_drivers \in SUBSET DriverIds
    /\ response \in Responses
    /\ api_file = <<>>
    /\ fpc = "call"

\* lines 149-161: write the round's file, or print and go on ("except Exception")
RoundFetched(r) ==
    IF r.ok
    THEN /\ api_file' = r.df
         /\ fpc' = "written"
    ELSE /\ fpc' = "skipped"
         /\ UNCHANGED api_file

\* one iteration of "for current_round in range(1, rounds+1)"
FetchRound ==
    /\ fpc = "call"
    /\ RoundFetched(get_year_round_df(response, race_drivers, mapping))
    /\ UNCHANGED <<mapping, race_drivers, response, timeVars, joinVars, yearVars, runVars,
                   cellVars, mainVars>>

NextFetch == FetchRound

SpecFetch == InitFetch /\ [][NextFetch]_vars

\* The driver has no number to give: absent from the mapping, or present with NaN
UnknownNumber(d) == d \notin DOMAIN mapping \/ mapping[d].nan

(***************************************************************************)
(* C15: when a race's pit-stop table is built, a driver whose identifier is *)
(* absent from the driver mapping, or present with an unknown number, gets  *)
(* the missing DriverNumber without any error being raised: the race's API  *)
(* file is still written with the rows of all its drivers.                  *)
(***************************************************************************)
C15_UnknownNumberDegrades ==
    (fpc # "call" /\ response = "ok" /\ race_drivers # {}) =>
        /\ fpc = "written"
        /\ {api_file[i].DriverId : i \in 1..Len(api_file)} = race_drivers
        /\ Len(api_file) = Cardinality(race_drivers)
        /\ \A i \in 1..Len(api_file) :
              UnknownNumber(api_file[i].DriverId) => api_file[i].DriverNumber = NanCell

(***************************************************************************)
(* main.py: the four steps of a run, one after the other in one thread.     *)
(* start_crawler blocks in process.start() until the crawl is over; the     *)
(* two jolpica calls and merge_API_WIKI are plain function calls.  A step   *)
(* is "running" from its call to its return or exception.                   *)
(***************************************************************************)
Steps == {"crawl", "mapping", "pit", "merge"}

\* get_pit_stops' default argument
years == <<2019, 2020, 2021, 2022, 2023>>

\* A main that calls the reconciliation straight after the driver mapping
FollowingMergeFirst(line) ==
    CASE line = "line28" -> "line33"
      [] line = "line33" -> "line43"
      [] line = "line35" -> "end"
      [] line = "line43" -> "line35"

\* The statement main goes to when the step called at a line is over
Following(line) ==
    CASE line = "line28" -> "line33"
      [] line = "line33" -> "line35"
      [] line = "line35" -> "line43"
      [] line = "line43" -> "end"

InitMain ==
    /\ TimeIdle
    /\ JoinIdle
    /\ YearIdle
    /\ RunIdle
    /\ CellIdle
    /\ FetchIdle
    /\ main_pc = "line28"
    /\ step_st = [s \in Steps |-> "pending"]
    /\ year_i = 0
    /\ years_found = {}
    /\ drivers_csv \in BOOLEAN

OtherThanMain == <<timeVars, joinVars, yearVars, runVars, cellVars, fetchVars>>

\* A step returned, or raised an exception main does not catch
StepOver(step, line, returned) ==
    /\ step_st' = [step_st EXCEPT ![step] = IF returned THEN "finished" ELSE "failed"]
    /\ main_pc' = IF returned THEN Following(line) ELSE "crashed"

\* line 28: start_crawler()
StartCrawler ==
    /\ main_pc = "line28"
    /\ step_st' = [step_st EXCEPT !["crawl"] = "running"]
    /\ main_pc' = "in_crawl"
    /\ UNCHANGED <<year_i, years_found, drivers_csv, OtherThanMain>>

\* process.start() returns, or the crawler process raises
CrawlerOver ==
    /\ main_pc = "in_crawl"
    /\ \E returned \in BOOLEAN : StepOver("crawl", "line28", returned)
    /\ UNCHANGED <<year_i, years_found, drivers_csv, OtherThanMain>>

\* line 33: get_drivers_mapping()
StartMapping ==
    /\ main_pc = "line33"
    /\ step_st' = [step_st EXCEPT !["mapping"] = "running"]
    /\ main_pc' = "in_mapping"
    /\ UNCHANGED <<year_i, years_found, drivers_csv, OtherThanMain>>

\* get_drivers_mapping writes results/drivers.csv and returns, or raises
\* DriversNotFoundError (or a request fails), which main does not catch
MappingOver ==
    /\ main_pc = "in_mapping"
    /\ \E returned \in BOOLEAN :
          /\ StepOver("mapping", "line33", returned)
          /\ drivers_csv' = (drivers_csv \/ returned)
    /\ UNCHANGED <<year_i, years_found, OtherThanMain>>

\* line 35: get_pit_stops(); without results/drivers.csv it raises the
\* FileNotFoundError that main catches at line 36
StartPitStops ==
    /\ main_pc = "line35"
    /\ IF drivers_csv
       THEN /\ step_st' = [step_st EXCEPT !["pit"] = "running"]
            /\ main_pc' = "in_pit"
       ELSE /\ step_st' = [step_st EXCEPT !["pit"] = "failed"]
            /\ main_pc' = Following("line35")
    /\ UNCHANGED <<year_i, years_found, drivers_csv, OtherThanMain>>

\* One entry of years: get_year_dfs returns, raises YearNotFoundError (caught
\* in the loop), or raises something else (a failed request), caught nowhere
PitStopsYear ==
    /\ main_pc = "in_pit"
    /\ year_i < Len(years)
    /\ year_i' = year_i + 1
    /\ \E outcome \in {"returned", "YearNotFoundError", "error"} :
          /\ years_found' = IF outcome = "returned"
                            THEN years_found \cup {years[year_i + 1]}
                            ELSE years_found
          /\ IF outcome = "error"
             THEN StepOver("pit", "line35", FALSE)
             ELSE UNCHANGED <<step_st, main_pc>>
    /\ UNCHANGED <<drivers_csv, OtherThanMain>>

\* The loop over years is exhausted: get_pit_stops returns
PitStopsOver ==
    /\ main_pc = "in_pit"
    /\ year_i = Len(years)
    /\ StepOver("pit", "line35", TRUE)
    /\ UNCHANGED <<year_i, years_found, drivers_csv, OtherThanMain>>

\* line 43: merge_API_WIKI()
StartMerge ==
    /\ main_pc = "line43"
    /\ step_st' = [step_st EXCEPT !["merge"] = "running"]
    /\ main_pc' = "in_merge"
    /\ UNCHANGED <<year_i, years_found, drivers_csv, OtherThanMain>>

\* merge_API_WIKI returns, raises FileNotFoundError (caught at line 46, main
\* ends), or raises another exception
MergeOver ==
    /\ main_pc = "in_merge"
    /\ \E outcome \in {"returned", "FileNotFoundError", "error"} :
          /\ step_st' = [step_st EXCEPT !["merge"] =
                            IF outcome = "returned" THEN "finished" ELSE "failed"]
          /\ main_pc' = IF outcome = "error" THEN "crashed" ELSE Following("line43")
    /\ UNCHANGED <<year_i, years_found, drivers_csv, OtherThanMain>>

NextMain ==
    \/ StartCrawler
    \/ CrawlerOver
    \/ StartMapping
    \/ MappingOver
    \/ StartPitStops
    \/ PitStopsYear
    \/ PitStopsOver
    \/ StartMerge
    \/ MergeOver

SpecMain == InitMain /\ [][NextMain]_vars

Started(step) == step_st[step] # "pending"

Running == {s \in Steps : step_st[s] = "running"}

(***************************************************************************)
(* C17: in every run of main the pit-stop fetch starts only after the       *)
(* driver-mapping fetch has finished, the reconciliation starts only after  *)
(* the crawl, the driver-mapping fetch and the pit-stop fetch have all      *)
(* finished, and no two of the steps are ever running at the same time.     *)
(***************************************************************************)
C17_StepsInOrder ==
    /\ Started("pit") => step_st["mapping"] = "finished"
    /\ Started("merge") => \A s \in {"crawl", "mapping", "pit"} : step_st[s] = "finished"
    /\ Cardinality(Running) <= 1

\* The reconciliation is running after a pit-stop fetch that found some years
\* and missed others
C17_Witness ==
    /\ step_st["merge"] = "running"
    /\ years_found # {}
    /\ Cardinality(years_found) < Len(years)

============================================================================
